---- MODULE Spec2Model ----
(***************************************************************************)
(* A model of main.py: the tokenizer generate_tokens, the recursive        *)
(* descent parser expr/term/factor/power/atom, the tree-walking evaluator  *)
(* visit, and main, which runs them over the text read from stdin.         *)
(*                                                                         *)
(* Characters are one-character strings and a text is a sequence of them.  *)
(* Python's None is the record None.  A float is one of                    *)
(*   [k |-> "num", n, d, s]  the dyadic rational n/d, exactly             *)
(*                        representable, with its sign bit s,              *)
(*   [k |-> "float"]      a float (or complex) value the model does not    *)
(*                        track: inexact, or beyond MaxMag,                *)
(* and an evaluation may also end in                                       *)
(*   [k |-> "err", exc]   the exception raised,                            *)
(*   [k |-> "unknown"]    a value or an OverflowError/ZeroDivisionError,   *)
(*                        which the model's arithmetic cannot tell apart.  *)
(***************************************************************************)
EXTENDS Integers, Sequences, FiniteSets, TLC

VARIABLES pc, stdin, text, tokens, last_token, node, value, stdout, raised

vars == <<pc, stdin, text, tokens, last_token, node, value, stdout, raised>>

-----------------------------------------------------------------------------
(* Bounds of the model *)

MaxLen == 5
MaxLenPrec == 5
MaxLenPow == 6
MaxToks == 5
MaxMag == 30000

InputChars == {"0", "3", "+", "-", "*", "/", "^", "(", ")", " ", "@"}
PrecChars == {"1", "2", "3", "+", "-", "*", "/"}
PowChars == {"2", "3", "5", "+", "-", "^"}

-----------------------------------------------------------------------------
(* Values *)

None == [k |-> "None"]

\* s is the sign bit: it tells 0.0 (s = 1) from -0.0 (s = -1)
Num(n, d) == [k |-> "num", n |-> n, d |-> d, s |-> IF n < 0 THEN -1 ELSE 1]
Zero(s) == [k |-> "num", n |-> 0, d |-> 1, s |-> s]
Untracked == [k |-> "float"]
Unknown == [k |-> "unknown"]
Raise(exc) == [k |-> "err", exc |-> exc]

Abs(x) == IF x < 0 THEN -x ELSE x

RECURSIVE GCD(_, _)
GCD(a, b) == IF b = 0 THEN a ELSE GCD(b, a % b)

RECURSIVE IsPow2(_)
IsPow2(d) == IF d = 1 THEN TRUE ELSE IF d % 2 # 0 THEN FALSE ELSE IsPow2(d \div 2)

\* The float n/d (d > 0): tracked when it is a dyadic rational within MaxMag.
Ratio(n, d) ==
    LET g == GCD(Abs(n), d)
        rn == n \div g
        rd == d \div g
    IN  IF Abs(rn) <= MaxMag /\ rd <= MaxMag /\ IsPow2(rd)
        THEN Num(rn, rd)
        ELSE Untracked

IsValue(v) == v.k \in {"num", "float"}

\* The values the model's arithmetic works on; a literal beyond MaxMag is known
\* exactly, and what is computed from it is not tracked.
Tracked(v) == v.k = "num" /\ Abs(v.n) <= MaxMag /\ v.d <= MaxMag

-----------------------------------------------------------------------------
(* Tokenizing *)

Digits == {"0", "1", "2", "3", "4", "5", "6", "7", "8", "9"}
Whitespace == {" ", "\n", "\t"}

TokenType ==
    {"NUMBER", "PLUS", "MINUS", "STAR", "SLASH", "CARET", "LPAREN", "RPAREN", "EOF"}

Token(type, val) == [type |-> type, value |-> val]

DigitVal(c) ==
    CASE c = "0" -> 0 [] c = "1" -> 1 [] c = "2" -> 2 [] c = "3" -> 3
      [] c = "4" -> 4 [] c = "5" -> 5 [] c = "6" -> 6 [] c = "7" -> 7
      [] c = "8" -> 8 [] c = "9" -> 9

RECURSIVE IntOf(_)
IntOf(ds) ==
    IF ds = <<>> THEN 0
    ELSE IntOf(SubSeq(ds, 1, Len(ds) - 1)) * 10 + DigitVal(ds[Len(ds)])

\* float(num) of a run of digits (exact: the runs here are far below 2^53)
float(num) == Num(IntOf(num), 1)

IsOperator(c) == c \in {"+", "-", "*", "/", "^"}

OperatorType(c) ==
    CASE c = "+" -> "PLUS" [] c = "-" -> "MINUS" [] c = "*" -> "STAR"
      [] c = "/" -> "SLASH" [] c = "^" -> "CARET"

\* The generator object: pos characters of text are consumed; it is suspended
\* at the start ("loop": at the head of the outer for, also after an operator's
\* yield), after the yield of a NUMBER ("number", with the loop variable char),
\* or it has finished ("done").
generate_tokens(t) == [kind |-> "gen", text |-> t, pos |-> 0, at |-> "loop", char |-> ""]

\* What next() on an iterator does: it yields a token, stops (StopIteration),
\* or raises "Unrecognized symbol" for the character arg.
Yielded(g, tok) == [st |-> "yield", tok |-> tok, arg |-> "", it |-> g]
Stopped(g) == [st |-> "stop", tok |-> None, arg |-> "", it |-> g]
Unrecognized(g, c) == [st |-> "raise", tok |-> None, arg |-> c, it |-> g]

\* The inner for: the index of the first character from p on that is no digit
\* (Len + 1 when the text ends first).
RECURSIVE ScanDigits(_, _)
ScanDigits(t, p) ==
    IF p > Len(t) THEN p
    ELSE IF t[p] \notin Digits THEN p
    ELSE ScanDigits(t, p + 1)

RECURSIVE GenLoop(_)

\* Lines 46-61: the rest of the loop body, for the loop variable char.
GenBody(g, char, hasNum) ==
    IF char \in Whitespace THEN GenLoop(g)
    ELSE IF IsOperator(char) THEN Yielded(g, Token(OperatorType(char), None))
    ELSE IF ~hasNum THEN Unrecognized([g EXCEPT !.at = "done"], char)
    ELSE GenLoop(g)

\* Lines 35-44: the head of the outer for, and the run of digits.
GenLoop(g) ==
    IF g.pos >= Len(g.text) THEN Stopped([g EXCEPT !.at = "done"])
    ELSE LET char == g.text[g.pos + 1] IN
         IF char \in Digits
         THEN LET q == ScanDigits(g.text, g.pos + 2)
                  n == Len(g.text)
              IN  Yielded([g EXCEPT !.pos = IF q <= n THEN q ELSE n,
                                    !.at = "number",
                                    !.char = IF q <= n THEN g.text[q] ELSE g.text[n]],
                          Token("NUMBER", float(SubSeq(g.text, g.pos + 1, q - 1))))
         ELSE GenBody([g EXCEPT !.pos = @ + 1], char, FALSE)

\* next() on the generator
GenNext(g) ==
    IF g.at = "done" THEN Stopped(g)
    ELSE IF g.at = "number" THEN GenBody([g EXCEPT !.at = "loop"], g.char, TRUE)
    ELSE GenLoop(g)

\* iter() over a list of tokens
ListIter(toks) == [kind |-> "list", toks |-> toks, i |-> 0]

ListNext(l) ==
    IF l.i >= Len(l.toks) THEN Stopped(l)
    ELSE Yielded([l EXCEPT !.i = @ + 1], l.toks[l.i + 1])

\* list(generate_tokens(t)): the tokens, or the character the generator raised on
RECURSIVE Drain(_, _)
Drain(g, acc) ==
    LET r == GenNext(g) IN
    IF r.st = "yield" THEN Drain(r.it, Append(acc, r.tok))
    ELSE [ok |-> r.st = "stop", toks |-> acc, arg |-> r.arg]

Materialise(t) == Drain(generate_tokens(t), <<>>)

-----------------------------------------------------------------------------
(* Parsing *)

NumberNode(v) == [cls |-> "NumberNode", value |-> v]
BinaryOpNode(left, op, right) ==
    [cls |-> "BinaryOpNode", left |-> left, op |-> op, right |-> right]
UnaryOpNode(op, n) == [cls |-> "UnaryOpNode", op |-> op, node |-> n]

NoError == [exc |-> "", msg |-> "", arg |-> ""]
Exception(msg, arg) == [exc |-> "Exception", msg |-> msg, arg |-> arg]

\* A parsing routine returns (token, node), or an exception leaves it.
Returns(token, n, it) == [ok |-> TRUE, token |-> token, node |-> n, it |-> it, err |-> NoError]
Raises(err, it) == [ok |-> FALSE, token |-> None, node |-> None, it |-> it, err |-> err]

\* next(tokens, Token(TokenType.EOF))
NextToken(it) ==
    LET r == IF it.kind = "gen" THEN GenNext(it) ELSE ListNext(it) IN
    IF r.st = "stop" THEN [r EXCEPT !.tok = Token("EOF", None)] ELSE r

RECURSIVE expr(_), exprLoop(_, _, _), term(_), termLoop(_, _, _), factor(_),
          power(_, _), powerLoop(_, _, _), atom(_, _)

\* A call's result r is handed on as a parameter: an exception in the callee
\* leaves the caller too, and otherwise the caller goes on with (token, node).

\* left = BinaryOpNode(left, optok, right), and around the while loop again
exprStep(r, optok, left) ==
    IF ~r.ok THEN r ELSE exprLoop(r.it, r.token, BinaryOpNode(left, optok, r.node))

\* exprLoop with the rest of the chain parsed as the right operand
exprLoop_RightAssoc(it, token, left) ==
    IF token.type \in {"PLUS", "MINUS"}
    THEN LET r == expr(it) IN
         IF ~r.ok THEN r ELSE Returns(r.token, BinaryOpNode(left, token, r.node), r.it)
    ELSE Returns(token, left, it)

\* the while loop of expr, entered with (token, left)
exprLoop(it, token, left) ==
    IF token.type \in {"PLUS", "MINUS"}
    THEN exprStep(term(it), token, left)
    ELSE Returns(token, left, it)

exprEnter(r) == IF ~r.ok THEN r ELSE exprLoop(r.it, r.token, r.node)

expr(it) == exprEnter(term(it))

\* termStep with the lookahead token, not optok, as the node's operator
termStep_LookaheadOp(r, optok, left) ==
    IF ~r.ok THEN r ELSE termLoop(r.it, r.token, BinaryOpNode(left, r.token, r.node))

termStep(r, optok, left) ==
    IF ~r.ok THEN r ELSE termLoop(r.it, r.token, BinaryOpNode(left, optok, r.node))

\* the while loop of term
termLoop(it, token, left) ==
    IF token.type \in {"STAR", "SLASH"}
    THEN termStep(factor(it), token, left)
    ELSE Returns(token, left, it)

termEnter(r) == IF ~r.ok THEN r ELSE termLoop(r.it, r.token, r.node)

term(it) == termEnter(factor(it))

\* right = UnaryOpNode(optok, right)
factorSign(r, optok) ==
    IF ~r.ok THEN r ELSE Returns(r.token, UnaryOpNode(optok, r.node), r.it)

\* factor once next() has answered n
factorToken(n) ==
    IF n.st = "raise" THEN Raises(Exception("Unrecognized symbol", n.arg), n.it)
    ELSE IF n.tok.type \in {"PLUS", "MINUS"} THEN factorSign(factor(n.it), n.tok)
    ELSE power(n.it, n.tok)

factor(it) == factorToken(NextToken(it))

powerStep(r, optok, left) ==
    IF ~r.ok THEN r ELSE powerLoop(r.it, r.token, BinaryOpNode(left, optok, r.node))

\* powerLoop with an atom, not a factor, as the right operand
powerLoop_LeftAssoc(it, token, left) ==
    IF token.type = "CARET"
    THEN LET n == NextToken(it)
             r == atom(n.it, n.tok)
         IN  IF n.st = "raise"
             THEN Raises(Exception("Unrecognized symbol", n.arg), n.it)
             ELSE powerStep(r, token, left)
    ELSE Returns(token, left, it)

\* the while loop of power
powerLoop(it, token, left) ==
    IF token.type = "CARET"
    THEN powerStep(factor(it), token, left)
    ELSE Returns(token, left, it)

powerEnter(r) == IF ~r.ok THEN r ELSE powerLoop(r.it, r.token, r.node)

power(it, token) == powerEnter(atom(it, token))

\* Lines 162-163 and 169-170: the lookahead n is fetched, and result returned
atomReturn(n, result) ==
    IF n.st = "raise" THEN Raises(Exception("Unrecognized symbol", n.arg), n.it)
    ELSE Returns(n.tok, result, n.it)

\* atomParen without the check for the closing parenthesis
atomParen_Unchecked(r) ==
    IF ~r.ok THEN r ELSE atomReturn(NextToken(r.it), r.node)

\* Lines 167-170: after expr has returned r inside the parentheses
atomParen(r) ==
    IF ~r.ok THEN r
    ELSE IF r.token.type # "RPAREN" THEN Raises(Exception("Missing )", ""), r.it)
    ELSE atomReturn(NextToken(r.it), r.node)

atom(it, token) ==
    IF token.type = "NUMBER" THEN atomReturn(NextToken(it), NumberNode(token.value))
    ELSE IF token.type = "LPAREN" THEN atomParen(expr(it))
    ELSE Raises(Exception("Error", ""), it)

-----------------------------------------------------------------------------
(* Interpreting *)

\* IEEE 754 on tracked values: a sum that cancels is 0.0, and -0.0 only when
\* both terms are -0.0; a zero product or quotient has the sign of its operands.
Add(a, b) ==
    LET n == a.n * b.d + b.n * a.d IN
    IF n = 0 THEN Zero(IF a.n = 0 /\ b.n = 0 /\ a.s = -1 /\ b.s = -1 THEN -1 ELSE 1)
    ELSE Ratio(n, a.d * b.d)

Neg(a) ==
    IF a.k = "None" THEN Raise("TypeError")
    ELSE IF a.k = "num" THEN [a EXCEPT !.n = -a.n, !.s = -a.s]
    ELSE a

Sub(a, b) == Add(a, Neg(b))

Mul(a, b) ==
    IF a.n * b.n = 0 THEN Zero(a.s * b.s) ELSE Ratio(a.n * b.n, a.d * b.d)

\* a / b for b # 0
Div(a, b) ==
    IF a.n = 0 THEN Zero(a.s * b.s)
    ELSE Ratio(IF b.n < 0 THEN -(a.n * b.d) ELSE a.n * b.d, a.d * Abs(b.n))

\* acc * b^e for an integer e >= 0, stopping once the product is out of range
RECURSIVE PowAcc(_, _, _)
PowAcc(acc, b, e) ==
    IF e = 0 \/ acc.k # "num" THEN acc ELSE PowAcc(Mul(acc, b), b, e - 1)

\* b^e for b # 0 and an integer e >= 1
IntPow(b, e) ==
    IF b = Num(-1, 1) THEN (IF e % 2 = 0 THEN Num(1, 1) ELSE b)
    ELSE PowAcc(Num(1, 1), b, e)

\* a ** b on floats: 0.0 to a negative power is a ZeroDivisionError, a result
\* out of range an OverflowError, a negative base to a fractional power complex.
Pow(a, b) ==
    IF b.n = 0 THEN Num(1, 1)
    ELSE IF a.n = 0
    THEN (IF b.n < 0 THEN Raise("ZeroDivisionError")
          ELSE Zero(IF b.d = 1 /\ b.n % 2 = 1 THEN a.s ELSE 1))
    ELSE IF a = Num(1, 1) THEN a
    ELSE IF b.d # 1 THEN Unknown
    ELSE LET p == IntPow(a, Abs(b.n)) IN
         IF p.k # "num" THEN Unknown
         ELSE IF b.n > 0 THEN p
         ELSE Div(Num(1, 1), p)

\* Arith with IEEE 754 division: x / 0.0 is an infinity or a NaN, not an error.
Arith_IEEE(type, a, b) ==
    IF a.k = "None" \/ b.k = "None" THEN Raise("TypeError")
    ELSE IF type = "SLASH" /\ b.k = "num" /\ b.n = 0 THEN Untracked
    ELSE IF ~Tracked(a) \/ ~Tracked(b)
    THEN (IF type \in {"PLUS", "MINUS", "STAR"} \/ (type = "SLASH" /\ b.k = "num")
          THEN Untracked ELSE Unknown)
    ELSE CASE type = "PLUS" -> Add(a, b)
           [] type = "MINUS" -> Sub(a, b)
           [] type = "STAR" -> Mul(a, b)
           [] type = "SLASH" -> Div(a, b)
           [] type = "CARET" -> Pow(a, b)

\* left <op> right for two operands already evaluated
Arith(type, a, b) ==
    IF a.k = "None" \/ b.k = "None" THEN Raise("TypeError")
    ELSE IF type = "SLASH" /\ b.k = "num" /\ b.n = 0 THEN Raise("ZeroDivisionError")
    ELSE IF ~Tracked(a) \/ ~Tracked(b)
    THEN (IF type \in {"PLUS", "MINUS", "STAR"} \/ (type = "SLASH" /\ b.k = "num")
          THEN Untracked ELSE Unknown)
    ELSE CASE type = "PLUS" -> Add(a, b)
           [] type = "MINUS" -> Sub(a, b)
           [] type = "STAR" -> Mul(a, b)
           [] type = "SLASH" -> Div(a, b)
           [] type = "CARET" -> Pow(a, b)

RECURSIVE visit(_)

visit_NumberNode(n) == n.value

\* The left operand is evaluated first; an exception in either leaves at once.
visit_BinaryOpNode(n) ==
    IF n.op.type \in {"PLUS", "MINUS", "STAR", "SLASH", "CARET"}
    THEN LET a == visit(n.left) IN
         IF a.k \in {"err", "unknown"} THEN a
         ELSE LET b == visit(n.right) IN
              IF b.k \in {"err", "unknown"} THEN b
              ELSE Arith(n.op.type, a, b)
    ELSE None

visit_UnaryOpNode(n) ==
    IF n.op.type = "PLUS" THEN visit(n.node)
    ELSE IF n.op.type = "MINUS"
    THEN LET a == visit(n.node) IN
         IF a.k \in {"err", "unknown"} THEN a ELSE Neg(a)
    ELSE None

visit(n) ==
    IF n.cls = "NumberNode" THEN visit_NumberNode(n)
    ELSE IF n.cls = "BinaryOpNode" THEN visit_BinaryOpNode(n)
    ELSE IF n.cls = "UnaryOpNode" THEN visit_UnaryOpNode(n)
    ELSE Raise("visit: Error")

\* What an evaluation the model cannot decide may turn out to be.
Outcomes(v) ==
    IF v.k = "unknown"
    THEN {Untracked, Raise("OverflowError"), Raise("ZeroDivisionError")}
    ELSE {v}

-----------------------------------------------------------------------------
(* main *)

Banner == [line |-> "Press <Ctrl-D> to Terminate input", v |-> None]
ResultLine(v) == [line |-> "value", v |-> v]

\* the assert compiled out (python -O)
AssertHolds_Skipped(token) == TRUE

\* assert last_token.type is TokenType.EOF
AssertHolds(token) == token.type = "EOF"

\* main is entered with some text of at most n characters of chars on stdin
Start(chars, n) ==
    /\ pc = "start"
    /\ \E k \in 0..n : stdin \in [1..k -> chars]
    /\ text = <<>>
    /\ tokens = None
    /\ last_token = None
    /\ node = None
    /\ value = None
    /\ stdout = <<>>
    /\ raised = NoError

Init == Start(InputChars, MaxLen)

\* ReadStdin without the return on an empty text
ReadStdin_NoEmptyCheck ==
    /\ pc = "start"
    /\ stdout' = Append(stdout, Banner)
    /\ text' = stdin
    /\ pc' = "expr"
    /\ tokens' = generate_tokens(stdin)
    /\ UNCHANGED <<stdin, last_token, node, value, raised>>

\* Lines 220-224: the banner, stdin.read(), the return on an empty text, and
\* the creation of the generator (which runs none of its body).
ReadStdin ==
    /\ pc = "start"
    /\ stdout' = Append(stdout, Banner)
    /\ text' = stdin
    /\ IF stdin = <<>>
       THEN pc' = "returned" /\ tokens' = tokens
       ELSE pc' = "expr" /\ tokens' = generate_tokens(stdin)
    /\ UNCHANGED <<stdin, last_token, node, value, raised>>

\* Line 225: last_token, node = expr(tokens)
ExprLeaves(r) ==
    /\ tokens' = r.it
    /\ IF r.ok
       THEN pc' = "assert" /\ last_token' = r.token /\ node' = r.node
            /\ raised' = raised
       ELSE pc' = "raised" /\ raised' = r.err
            /\ UNCHANGED <<last_token, node>>

CallExpr ==
    /\ pc = "expr"
    /\ ExprLeaves(expr(tokens))
    /\ UNCHANGED <<stdin, text, value, stdout>>

\* Line 226
AssertEOF ==
    /\ pc = "assert"
    /\ IF AssertHolds(last_token)
       THEN pc' = "visit" /\ raised' = raised
       ELSE pc' = "raised" /\ raised' = [exc |-> "AssertionError", msg |-> "", arg |-> ""]
    /\ UNCHANGED <<stdin, text, tokens, last_token, node, value, stdout>>

\* Line 227: value = visit(node)
CallVisit ==
    /\ pc = "visit"
    /\ \E v \in Outcomes(visit(node)) :
          IF v.k = "err"
          THEN pc' = "raised" /\ raised' = [exc |-> v.exc, msg |-> "", arg |-> ""]
               /\ value' = value
          ELSE pc' = "print" /\ value' = v /\ raised' = raised
    /\ UNCHANGED <<stdin, text, tokens, last_token, node, stdout>>

\* Line 228: print(value)
PrintValue ==
    /\ pc = "print"
    /\ stdout' = Append(stdout, ResultLine(value))
    /\ pc' = "returned"
    /\ UNCHANGED <<stdin, text, tokens, last_token, node, value, raised>>

Next == ReadStdin \/ CallExpr \/ AssertEOF \/ CallVisit \/ PrintValue

Spec == Init /\ [][Next]_vars

\* main on texts of digits and the four operators of expr and term
SpecPrec == Start(PrecChars, MaxLenPrec) /\ [][Next]_vars

\* main on texts of digits, signs and carets
SpecPow == Start(PowChars, MaxLenPow) /\ [][Next]_vars

\* Lines 225-228 over iter() of a list of tokens: the parser and the evaluator
\* as functions of a token sequence, whatever text it came from.
TokenChoices ==
    {Token("NUMBER", Num(1, 1)), Token("NUMBER", Num(2, 1))}
        \cup {Token(t, None) : t \in TokenType \ {"NUMBER", "EOF"}}

InitTok ==
    /\ pc = "expr"
    /\ \E k \in 0..MaxToks : \E toks \in [1..k -> TokenChoices] : tokens = ListIter(toks)
    /\ stdin = <<>>
    /\ text = <<>>
    /\ last_token = None
    /\ node = None
    /\ value = None
    /\ stdout = <<>>
    /\ raised = NoError

NextTok == CallExpr \/ AssertEOF \/ CallVisit \/ PrintValue

SpecTok == InitTok /\ [][NextTok]_vars

\* Lines 225-227 as one function of the iterator: the tree and what visit makes
\* of it, or the exception that ends the run.
Checked(r) ==
    IF ~r.ok THEN [ok |-> FALSE, err |-> r.err, node |-> None, v |-> None]
    ELSE IF ~AssertHolds(r.token)
    THEN [ok |-> FALSE, err |-> [exc |-> "AssertionError", msg |-> "", arg |-> ""],
          node |-> None, v |-> None]
    ELSE [ok |-> TRUE, err |-> NoError, node |-> r.node, v |-> visit(r.node)]

Evaluate(it) == Checked(expr(it))

\* The same over list(generate_tokens(t)): the tokenizer runs to its end first.
EvaluateList(m) ==
    IF ~m.ok
    THEN [ok |-> FALSE, err |-> Exception("Unrecognized symbol", m.arg),
          node |-> None, v |-> None]
    ELSE Evaluate(ListIter(m.toks))

EvaluateMaterialised(t) == EvaluateList(Materialise(t))

-----------------------------------------------------------------------------
(* Properties *)

CountChar(t, c) == Cardinality({i \in 1..Len(t) : t[i] = c})
CountType(toks, type) == Cardinality({i \in 1..Len(toks) : toks[i].type = type})

\* The characters the tokenizer is to skip or to turn into a token
Recognised(c) == c \in Digits \cup Whitespace \/ IsOperator(c)
IsParen(c) == c \in {"(", ")"}

\* main has gone through expr and the assert: node is the tree of the whole text
Accepted == pc \in {"visit", "print", "returned", "raised"} /\ node # None /\ AssertHolds(last_token)

\* main has ended, by a return or by an exception
Ended == pc \in {"returned", "raised"}

HasResultLine == \E i \in 1..Len(stdout) : stdout[i].line = "value"

RECURSIVE SubNodes(_)
SubNodes(n) ==
    IF n.cls = "BinaryOpNode" THEN {n} \cup SubNodes(n.left) \cup SubNodes(n.right)
    ELSE IF n.cls = "UnaryOpNode" THEN {n} \cup SubNodes(n.node)
    ELSE {n}

\* the materialised tokens m hold one LPAREN for each "(", one RPAREN for each ")"
C1_LexedParens(m) ==
    /\ m.ok
    /\ CountType(m.toks, "LPAREN") = CountChar(text, "(")
    /\ CountType(m.toks, "RPAREN") = CountChar(text, ")")

C1_Inner == SubSeq(text, 2, Len(text) - 1)

\* C1: for a text of digits, operators, whitespace and parentheses the tokenizer
\* yields one LPAREN for each "(" and one RPAREN for each ")", and main on
\* "(" e ")", where e alone is a complete expression, builds the tree of e.
C1_ParenthesesGroup ==
    pc \notin {"start", "expr"} =>
        /\ (\A i \in 1..Len(text) : Recognised(text[i]) \/ IsParen(text[i]))
              => C1_LexedParens(Materialise(text))
        /\ (/\ Len(text) >= 3
            /\ text[1] = "(" /\ text[Len(text)] = ")"
            /\ \A i \in 1..Len(C1_Inner) : Recognised(C1_Inner[i])
            /\ Evaluate(generate_tokens(C1_Inner)).ok)
              => /\ node = Evaluate(generate_tokens(C1_Inner)).node
                 /\ AssertHolds(last_token)

\* the tokenizer raises on text[i], after the tokens of the text before it
C2_RaisesAt(m, i) ==
    /\ ~m.ok
    /\ m.arg = text[i]
    /\ m.toks = Materialise(SubSeq(text, 1, i - 1)).toks

\* C2: when the first character of the text that is neither whitespace, a digit
\* nor an operator is no parenthesis either, the tokenizer raises on that
\* character, having yielded the tokens of the text before it and no other.
C2_UnrecognizedCharFails ==
    Ended =>
        \A i \in 1..Len(text) :
            (/\ ~Recognised(text[i]) /\ ~IsParen(text[i])
             /\ \A j \in 1..(i - 1) : Recognised(text[j]))
                => C2_RaisesAt(Materialise(text), i)

IsZero(v) == v.k = "num" /\ v.n = 0

\* a division whose operands evaluate to a value and to zero
SlashByZero(n) ==
    /\ n.cls = "BinaryOpNode"
    /\ n.op.type = "SLASH"
    /\ IsValue(visit(n.left))
    /\ IsZero(visit(n.right))

\* C3 as claimed: when the tree is a division by zero, visit returns a
\* value and main prints it.
C3_DivisionByZeroIsNoError ==
    (Accepted /\ Ended /\ SlashByZero(node)) =>
        pc = "returned" /\ IsValue(value) /\ HasResultLine

\* C3 as amended: visit of a division by zero raises ZeroDivisionError, and main
\* ends with that exception and no result line.
C3_DivisionByZeroRaises ==
    Accepted =>
        /\ \A n \in SubNodes(node) :
              SlashByZero(n) => visit(n) = Raise("ZeroDivisionError")
        /\ (Ended /\ SlashByZero(node)) =>
              /\ pc = "raised"
              /\ raised.exc = "ZeroDivisionError"
              /\ value = None
              /\ stdout = <<Banner>>

\* C3: main on "3/0" has ended in ZeroDivisionError
C3_Witness ==
    /\ text = <<"3", "/", "0">>
    /\ pc = "raised"
    /\ raised.exc = "ZeroDivisionError"

\* C4 as claimed: on an empty stdin main tokenizes, parses and evaluates
\* nothing, writes nothing to stdout and returns without an exception.
C4_EmptyInputSilent ==
    (stdin = <<>> /\ pc # "start") =>
        /\ pc = "returned"
        /\ tokens = None /\ last_token = None /\ node = None /\ value = None
        /\ raised = NoError
        /\ stdout = <<>>

\* C4 as amended: the same, but for the banner line, which is on stdout.
C4_EmptyInputOnlyBanner ==
    (stdin = <<>> /\ pc # "start") =>
        /\ pc = "returned"
        /\ tokens = None /\ last_token = None /\ node = None /\ value = None
        /\ raised = NoError
        /\ stdout = <<Banner>>

\* C4: main has returned on an empty stdin
C4_Witness == stdin = <<>> /\ pc = "returned" /\ stdout = <<Banner>>

IsSign(tok) == tok.type \in {"PLUS", "MINUS"}
IsAdditive(n) == n.cls = "BinaryOpNode" /\ IsSign(n.op)
IsMultiplicative(n) == n.cls = "BinaryOpNode" /\ n.op.type \in {"STAR", "SLASH"}

\* the tokens of a tree, left to right
RECURSIVE Flatten(_)
Flatten(n) ==
    IF n.cls = "BinaryOpNode" THEN Flatten(n.left) \o <<n.op>> \o Flatten(n.right)
    ELSE IF n.cls = "UnaryOpNode" THEN <<n.op>> \o Flatten(n.node)
    ELSE <<Token("NUMBER", n.value)>>

\* A tree of numbers, signs and + - * / in which every chain of one level leans
\* to the left and * and / bind tighter than + and -: the right operand of + or
\* - holds no + or -, the operands of * or / hold no + or -, the right operand
\* of * or / no binary operator at all, and a sign is applied to no binary node.
RECURSIVE LeftAssociative(_)
LeftAssociative(n) ==
    IF n.cls = "NumberNode" THEN TRUE
    ELSE IF n.cls = "UnaryOpNode"
    THEN n.node.cls # "BinaryOpNode" /\ LeftAssociative(n.node)
    ELSE IF IsAdditive(n)
    THEN ~IsAdditive(n.right) /\ LeftAssociative(n.left) /\ LeftAssociative(n.right)
    ELSE IF IsMultiplicative(n)
    THEN /\ ~IsAdditive(n.left)
         /\ n.right.cls # "BinaryOpNode"
         /\ LeftAssociative(n.left) /\ LeftAssociative(n.right)
    ELSE FALSE

Leaf(c) == NumberNode(Num(DigitVal(c), 1))
OpToken(c) == Token(OperatorType(c), None)
Level(c) == IF c \in {"+", "-"} THEN 1 ELSE 2

\* the tree the claim gives for a o1 b o2 c
ChainTree(t) ==
    IF Level(t[2]) < Level(t[4])
    THEN BinaryOpNode(Leaf(t[1]), OpToken(t[2]),
                      BinaryOpNode(Leaf(t[3]), OpToken(t[4]), Leaf(t[5])))
    ELSE BinaryOpNode(BinaryOpNode(Leaf(t[1]), OpToken(t[2]), Leaf(t[3])),
                      OpToken(t[4]), Leaf(t[5]))

IsChain(t) ==
    /\ Len(t) = 5
    /\ t[1] \in Digits /\ t[3] \in Digits /\ t[5] \in Digits
    /\ t[2] \in {"+", "-", "*", "/"} /\ t[4] \in {"+", "-", "*", "/"}

OnePlusTwoTimesThree == <<"1", "+", "2", "*", "3">>

\* C5: an accepted text of digits and + - * / parses to the tree whose tokens
\* are the text's, with every chain of one level nested to the left and * and /
\* below + and -; a o1 b o2 c gives ((a o1 b) o2 c), but a + (b * c) when o2
\* binds tighter than o1; and "1+2*3" is accepted and evaluates to 7.0.
C5_PrecedenceAndLeftAssociativity ==
    /\ Accepted =>
          /\ Flatten(node) = Materialise(text).toks
          /\ LeftAssociative(node)
    /\ (IsChain(text) /\ pc \notin {"start", "expr"}) =>
          node = ChainTree(text) /\ AssertHolds(last_token)
    /\ (text = OnePlusTwoTimesThree /\ Ended) =>
          pc = "returned" /\ value = Num(7, 1) /\ stdout = <<Banner, ResultLine(Num(7, 1))>>

\* C5: main on "1+2*3" has printed 7.0 for the tree 1 + (2 * 3)
C5_Witness ==
    /\ text = OnePlusTwoTimesThree
    /\ pc = "returned"
    /\ node = ChainTree(text)
    /\ value = Num(7, 1)

\* The tree of a factor, read off the grammar
\*     factor := (PLUS|MINUS) factor | power     power := atom (CARET factor)*
\* for tokens that are numbers, signs and carets: a sign wraps all that follows
\* it, and a number followed by a caret is raised to all that follows the caret.
RECURSIVE GrammarFactor(_)
GrammarFactor(toks) ==
    IF IsSign(toks[1]) THEN UnaryOpNode(toks[1], GrammarFactor(Tail(toks)))
    ELSE IF Len(toks) = 1 THEN NumberNode(toks[1].value)
    ELSE BinaryOpNode(NumberNode(toks[1].value), toks[2],
                      GrammarFactor(SubSeq(toks, 3, Len(toks))))

\* The signs that stand after a number are the binary ones, of expr.
BinarySigns(toks) ==
    {i \in 2..Len(toks) : IsSign(toks[i]) /\ toks[i - 1].type = "NUMBER"}

Last(S) == CHOOSE i \in S : \A j \in S : j <= i

RECURSIVE GrammarExpr(_)
GrammarExpr(toks) ==
    IF BinarySigns(toks) = {} THEN GrammarFactor(toks)
    ELSE BinaryOpNode(GrammarExpr(SubSeq(toks, 1, Last(BinarySigns(toks)) - 1)),
                      toks[Last(BinarySigns(toks))],
                      GrammarFactor(SubSeq(toks, Last(BinarySigns(toks)) + 1, Len(toks))))

\* the number of signs the text starts with, and of UnaryOpNodes on top of a tree
RECURSIVE LeadingSigns(_)
LeadingSigns(toks) ==
    IF toks # <<>> /\ IsSign(toks[1]) THEN 1 + LeadingSigns(Tail(toks)) ELSE 0

RECURSIVE UnaryDepth(_)
UnaryDepth(n) == IF n.cls = "UnaryOpNode" THEN 1 + UnaryDepth(n.node) ELSE 0

\* what main prints for a text, once it has ended
Prints(t, v) ==
    (text = t /\ Ended) =>
        pc = "returned" /\ value = v /\ stdout = <<Banner, ResultLine(v)>>

\* C6: an accepted text of digits, signs and carets parses to the tree of the
\* grammar: ^ groups to the right, a sign wraps the whole power chain after it,
\* also in an exponent, and n signs in a row give n nested UnaryOpNodes; so
\* "2^3^2" is 512.0, "-2^2" is -4.0, "2^-2^2" is 2^(-4) and "--5" is 5.0.
C6_PowerAndUnaryGrammar ==
    /\ Accepted =>
          /\ node = GrammarExpr(Materialise(text).toks)
          /\ BinarySigns(Materialise(text).toks) = {} =>
                UnaryDepth(node) = LeadingSigns(Materialise(text).toks)
    /\ Prints(<<"2", "^", "3", "^", "2">>, Num(512, 1))
    /\ Prints(<<"-", "2", "^", "2">>, Num(-4, 1))
    /\ Prints(<<"2", "^", "-", "2", "^", "2">>, Num(1, 16))
    /\ Prints(<<"-", "-", "5">>, Num(5, 1))

\* C6: main on "2^-2^2" has printed 2^(-(2^2))
C6_Witness ==
    /\ text = <<"2", "^", "-", "2", "^", "2">>
    /\ pc = "returned"
    /\ value = Num(1, 16)
    /\ node.right.cls = "UnaryOpNode"
    /\ node.right.node.cls = "BinaryOpNode"

\* The language of the grammar in the docstrings of expr, term, factor, power and
\* atom, by the ways a token sequence splits into the parts of a production.
RECURSIVE InExpr(_), InTerm(_), InFactor(_), InPower(_), InAtom(_)

InAtom(s) ==
    \/ Len(s) = 1 /\ s[1].type = "NUMBER"
    \/ /\ Len(s) >= 3
       /\ s[1].type = "LPAREN" /\ s[Len(s)].type = "RPAREN"
       /\ InExpr(SubSeq(s, 2, Len(s) - 1))

InPower(s) ==
    \/ InAtom(s)
    \/ \E i \in 2..(Len(s) - 1) :
          /\ s[i].type = "CARET"
          /\ InPower(SubSeq(s, 1, i - 1))
          /\ InFactor(SubSeq(s, i + 1, Len(s)))

InFactor(s) ==
    \/ Len(s) >= 2 /\ IsSign(s[1]) /\ InFactor(Tail(s))
    \/ InPower(s)

InTerm(s) ==
    \/ InFactor(s)
    \/ \E i \in 2..(Len(s) - 1) :
          /\ s[i].type \in {"STAR", "SLASH"}
          /\ InTerm(SubSeq(s, 1, i - 1))
          /\ InFactor(SubSeq(s, i + 1, Len(s)))

InExpr(s) ==
    \/ InTerm(s)
    \/ \E i \in 2..(Len(s) - 1) :
          /\ IsSign(s[i])
          /\ InExpr(SubSeq(s, 1, i - 1))
          /\ InTerm(SubSeq(s, i + 1, Len(s)))

Front(s) == SubSeq(s, 1, Len(s) - 1)

\* a complete expression, then a token that no production can go on with
HasLeftover(s) ==
    \E i \in 1..(Len(s) - 1) :
        InExpr(SubSeq(s, 1, i)) /\ s[i + 1].type \in {"NUMBER", "LPAREN", "RPAREN"}

\* "(" and a complete expression, and the end of the tokens where ")" is due
LacksRParen(s) == Len(s) >= 2 /\ s[1].type = "LPAREN" /\ InExpr(Tail(s))

\* no atom where one is due: at the start, or after a last operator
LacksAtom(s) ==
    \/ s = <<>>
    \/ s[1].type \in {"STAR", "SLASH", "CARET", "RPAREN"}
    \/ /\ s[Len(s)].type \in {"PLUS", "MINUS", "STAR", "SLASH", "CARET"}
       /\ InExpr(Front(s))

\* C7: a token sequence that is no complete expression of the grammar makes
\* expr or the assert raise, and nothing is evaluated or printed; a token left
\* after a complete expression fails the assert, "(" expr without ")" raises
\* "Missing )", and a missing atom raises "Error".
C7_IncompleteInputFails ==
    /\ ~InExpr(tokens.toks) =>
          /\ pc \in {"expr", "assert", "raised"}
          /\ pc = "assert" => ~AssertHolds(last_token)
          /\ value = None
          /\ stdout = <<>>
    /\ (HasLeftover(tokens.toks) /\ pc # "expr") =>
          /\ pc = "assert" => last_token.type \in {"NUMBER", "LPAREN", "RPAREN"}
          /\ pc # "assert" => pc = "raised" /\ raised.exc = "AssertionError"
    /\ (LacksRParen(tokens.toks) /\ pc # "expr") =>
          pc = "raised" /\ raised = Exception("Missing )", "")
    /\ (LacksAtom(tokens.toks) /\ pc # "expr") =>
          pc = "raised" /\ raised = Exception("Error", "")

\* C7: the tokens of "1 2" have failed the assert, with 2 left over
C7_Witness ==
    /\ tokens.toks = <<Token("NUMBER", Num(1, 1)), Token("NUMBER", Num(2, 1))>>
    /\ pc = "raised"
    /\ raised.exc = "AssertionError"
    /\ node = NumberNode(Num(1, 1))

\* main has ended as the run e over the materialised list
C8_SameAs(e) ==
    IF e.ok THEN Accepted /\ node = e.node
    ELSE pc = "raised" /\ ~Accepted /\ raised = e.err

\* C8 as claimed: main ends as the same steps over the materialised token list
\* end: with the same tree, hence the same value, or with the same exception.
C8_SameOutcome ==
    (Ended /\ text # <<>>) => C8_SameAs(EvaluateMaterialised(text))

\* main has ended with the tree of e, or both have failed
C8_SameOrBothFail(e) ==
    IF e.ok THEN Accepted /\ node = e.node
    ELSE /\ pc = "raised" /\ ~Accepted
         /\ value = None /\ ~HasResultLine
         /\ raised # e.err =>
               /\ e.err.msg = "Unrecognized symbol"
               /\ raised.msg # "Unrecognized symbol"

\* C8 as amended: the same tree and value, or a failure before any evaluation
\* in both; the exceptions differ only where the list's is the tokenizer's
\* and the parser or the assert has raised first on the tokens pulled so far.
C8_SameValueOrBothFail ==
    (Ended /\ text # <<>>) => C8_SameOrBothFail(EvaluateMaterialised(text))

\* C8: on "*@" atom has raised, where the materialised list raises on "@"
C8_Witness ==
    /\ text = <<"*", "@">>
    /\ pc = "raised"
    /\ raised = Exception("Error", "")
    /\ EvaluateMaterialised(text).err = Exception("Unrecognized symbol", "@")

\* A tree whose operators are operator tokens and whose numbers are the
\* payloads of NUMBER tokens of toks
RECURSIVE WellFormed(_, _)
WellFormed(n, toks) ==
    IF n.cls = "NumberNode"
    THEN n.value # None /\ \E i \in 1..Len(toks) : toks[i] = Token("NUMBER", n.value)
    ELSE IF n.cls = "BinaryOpNode"
    THEN /\ n.op.type \in {"PLUS", "MINUS", "STAR", "SLASH", "CARET"}
         /\ WellFormed(n.left, toks) /\ WellFormed(n.right, toks)
    ELSE IF n.cls = "UnaryOpNode"
    THEN n.op.type \in {"PLUS", "MINUS"} /\ WellFormed(n.node, toks)
    ELSE FALSE

\* C9: in a tree returned by expr every BinaryOpNode has one of the five
\* operators, every UnaryOpNode a sign, every NumberNode the payload of a NUMBER
\* token; visit of it and of each of its nodes neither raises "visit: Error"
\* nor returns None (nor gets a None operand, a TypeError).
C9_TreeWellFormed ==
    node # None =>
        /\ WellFormed(node, tokens.toks)
        /\ \A n \in SubNodes(node) :
              /\ visit(n) # None
              /\ visit(n) \notin {Raise("visit: Error"), Raise("TypeError")}

\* C9: a tree with a binary and a unary node has been evaluated and printed
C9_Witness ==
    /\ pc = "returned"
    /\ node.cls = "BinaryOpNode"
    /\ node.op.type = "STAR"
    /\ node.left.cls = "UnaryOpNode"
    /\ node.right.cls = "NumberNode"

\* one step of main, as C10 allows it
C10_Step ==
    /\ (pc' = "visit" /\ pc # "visit") =>
          /\ pc = "assert"
          /\ node # None /\ node' = node
          /\ last_token.type = "EOF"
    /\ value' # value => pc = "visit" /\ node' = node /\ raised' = NoError
    /\ stdout' # stdout =>
          \/ pc = "start" /\ stdout' = <<Banner>>
          \/ /\ pc = "print"
             /\ IsValue(value) /\ raised = NoError /\ last_token.type = "EOF"
             /\ stdout' = <<Banner, ResultLine(value)>>
    /\ raised' # NoError => pc' = "raised" /\ ~HasResultLine'
    /\ pc = "raised" => UNCHANGED vars

\* C10: visit starts only from the passed assert, on the tree expr returned
\* and with EOF as the lookahead; a result line is printed only from the print
\* step, with the value visit returned and no exception; once an exception
\* has left main nothing changes, and no result line is on stdout.
C10_StagesInOrder == [][C10_Step]_vars

\* C10: a run has gone through every stage and printed its result
C10_Witness ==
    /\ pc = "returned"
    /\ raised = NoError
    /\ IsValue(value)
    /\ stdout = <<Banner, ResultLine(value)>>

====
